---- MODULE Spec2Model ----
(***************************************************************************)
(* The ingestion reconciliation pipeline of stock-index-app:               *)
(*   src/src/ingest/orchestrator.py  DataOrchestrator (store, fetch        *)
(*                                   coordinator, ingest sweep)            *)
(*   src/src/sources/yahoo.py        YahooFinanceSource.fetch (Primary)    *)
(*   src/src/sources/alphavantage.py AlphaVantageSource.fetch (Secondary)  *)
(*   src/src/retry.py                retry_on_exception, sleep_with_backoff*)
(*                                                                         *)
(* Python None / SQL NULL is the empty tuple None; a present value v is    *)
(* the one-element tuple Some(v).  Calendar dates are day numbers          *)
(* 1..MaxDate; ISO date strings compare as their day numbers do.           *)
(* CURRENT_TIMESTAMP is the logical clock `now`, which advances with every *)
(* call of upsert_daily_data and with every pair of an ingest.             *)
(***************************************************************************)
EXTENDS Integers, Sequences, FiniteSets, TLC

VARIABLES
    daily,      \* rows of table daily_stock_data
    meta,       \* rows of table stock_metadata
    now,        \* the clock read by CURRENT_TIMESTAMP
    pc,         \* position of the caller: "idle" or inside ingest ("sweep")
    run,        \* locals of the running ingest call
    ret,        \* how the last ingest call ended and what it returned
    last,       \* trace of the last store / pair operation
    script,     \* the calls the caller has yet to make, in order
    idem,       \* bookkeeping of the repeated-run scenario (SpecIdem)
    rt,         \* the retry wrapper's frame (SpecRetry)
    conn,       \* the connection self.conn: "none", "open" or "closed"
    frames,     \* the frames of callers running upsert_daily_data side by side
    events      \* the calls a step-by-step ingest has made, in order

vars == <<daily, meta, now, pc, run, ret, last, script, idem, rt,
          conn, frames, events>>

----------------------------------------------------------------------------
(* Bounds *)

MaxDate == 2        \* calendar days 1..MaxDate
MaxPairs == 2       \* pairs per run in the repeated-run scenario
MaxAttempts == 3    \* largest max_attempts given to retry_on_exception
MaxMetaCalls == 3   \* direct calls of upsert_stock_metadata

----------------------------------------------------------------------------
(* Values *)

None == <<>>
Some(v) == <<v>>
IsNone(v) == v = None
NotNone(v) == v /= None

Symbols == {"AAPL", "MSFT"}
Dates == 1..MaxDate
Prices == {150, 999}
Caps == {2000000000, 2100000000}
Sources == {"yahoo", "alphavantage"}

OptPrice == {None} \cup {Some(p) : p \in Prices}
OptCap == {None} \cup {Some(c) : c \in Caps}

\* Python truthiness of an optional string: None and "" are falsy.
NonNull(v) == v /= <<>>

Truthy(v) == NotNone(v) /\ v /= Some("")

----------------------------------------------------------------------------
(* The store: tables and SQL statements *)

\* SELECT ... FROM daily_stock_data WHERE symbol = ? AND date = ?
SelectDaily(tbl, symbol, date) ==
    {r \in tbl : r.symbol = symbol /\ r.date = date}

\* an observation without values is not inserted
InsertDaily_SkipEmpty(tbl, t, symbol, date, close_price, market_cap, source, error) ==
    IF SelectDaily(tbl, symbol, date) /= {}
    THEN [raised |-> TRUE, tbl |-> tbl]
    ELSE IF IsNone(close_price) /\ IsNone(market_cap)
    THEN [raised |-> FALSE, tbl |-> tbl]
    ELSE [raised |-> FALSE,
          tbl |-> tbl \cup {[symbol |-> symbol, date |-> date,
                             close_price |-> close_price,
                             market_cap |-> market_cap,
                             source |-> source, error |-> error,
                             created_at |-> t, updated_at |-> t]}]

\* INSERT INTO daily_stock_data: the PRIMARY KEY (symbol, date) rejects a
\* second row of the same key; created_at and updated_at take their default.
InsertDaily(tbl, t, symbol, date, close_price, market_cap, source, error) ==
    IF SelectDaily(tbl, symbol, date) /= {}
    THEN [raised |-> TRUE, tbl |-> tbl]
    ELSE [raised |-> FALSE,
          tbl |-> tbl \cup {[symbol |-> symbol, date |-> date,
                             close_price |-> close_price,
                             market_cap |-> market_cap,
                             source |-> source, error |-> error,
                             created_at |-> t, updated_at |-> t]}]

\* an UPDATE that leaves source, error and updated_at as they were
UpdateDaily_KeepTag(tbl, t, symbol, date, close_price, market_cap, source, error) ==
    {IF r.symbol = symbol /\ r.date = date
     THEN [r EXCEPT !.close_price = close_price, !.market_cap = market_cap]
     ELSE r : r \in tbl}

\* an UPDATE that also sets created_at
UpdateDaily_ResetCreated(tbl, t, symbol, date, close_price, market_cap, source, error) ==
    {IF r.symbol = symbol /\ r.date = date
     THEN [r EXCEPT !.close_price = close_price, !.market_cap = market_cap,
                    !.source = source, !.error = error, !.updated_at = t,
                    !.created_at = t]
     ELSE r : r \in tbl}

\* an UPDATE that leaves error as it was
UpdateDaily_KeepError(tbl, t, symbol, date, close_price, market_cap, source, error) ==
    {IF r.symbol = symbol /\ r.date = date
     THEN [r EXCEPT !.close_price = close_price, !.market_cap = market_cap,
                    !.source = source, !.updated_at = t]
     ELSE r : r \in tbl}

\* UPDATE daily_stock_data SET close_price, market_cap, source, error,
\* updated_at = CURRENT_TIMESTAMP WHERE symbol = ? AND date = ?
UpdateDaily(tbl, t, symbol, date, close_price, market_cap, source, error) ==
    {IF r.symbol = symbol /\ r.date = date
     THEN [r EXCEPT !.close_price = close_price, !.market_cap = market_cap,
                    !.source = source, !.error = error, !.updated_at = t]
     ELSE r : r \in tbl}

\* adoption whenever the incoming value is present
Adopts_Incoming(existing_value, incoming) == NotNone(incoming)

\* `existing_x is None and x is not None`
Adopts(existing_value, incoming) == IsNone(existing_value) /\ NotNone(incoming)

\* a present incoming value replaces the stored one
NewValue_Overwrite(existing_value, incoming) ==
    IF NotNone(incoming) THEN incoming ELSE existing_value

\* new_x: the stored value unless the incoming one is adopted
NewValue(existing_value, incoming) ==
    IF Adopts(existing_value, incoming) THEN incoming ELSE existing_value

\* the UPDATE is always executed
ShouldUpdate_Always(existing_close, existing_market_cap, close_price, market_cap) ==
    TRUE

\* the UPDATE is executed whenever the incoming observation has a value
ShouldUpdate_OnValue(existing_close, existing_market_cap, close_price, market_cap) ==
    NotNone(close_price) \/ NotNone(market_cap)

\* should_update
ShouldUpdate(existing_close, existing_market_cap, close_price, market_cap) ==
    Adopts(existing_close, close_price) \/ Adopts(existing_market_cap, market_cap)

\* upsert_daily_data after its lookup: `found` is what the SELECT fetched,
\* tbl the table when the INSERT or UPDATE runs.  The result carries the
\* table, the statements executed, whether the call raised and what the
\* lookup fetched.
WriteDailyData(tbl, found, t, symbol, date, close_price, market_cap, source, error) ==
    IF found /= {}
    THEN LET row == CHOOSE r \in found : TRUE
             existing == Some(<<row.close_price, row.market_cap>>)
             existing_close == row.close_price
             existing_market_cap == row.market_cap
             new_close_price == NewValue(existing_close, close_price)
             new_market_cap == NewValue(existing_market_cap, market_cap)
             should_update == ShouldUpdate(existing_close, existing_market_cap,
                                           close_price, market_cap)
         IN IF should_update
            THEN [tbl |-> UpdateDaily(tbl, t, symbol, date, new_close_price,
                                      new_market_cap, source, error),
                  stmts |-> <<"SELECT", "UPDATE">>, raised |-> FALSE,
                  existing |-> existing]
            ELSE [tbl |-> tbl, stmts |-> <<"SELECT">>, raised |-> FALSE,
                  existing |-> existing]
    ELSE LET ins == InsertDaily(tbl, t, symbol, date, close_price, market_cap,
                                source, error)
         IN [tbl |-> ins.tbl, stmts |-> <<"SELECT", "INSERT">>,
             raised |-> ins.raised, existing |-> None]

\* upsert_daily_data run without interruption.  fault = TRUE is a storage
\* failure of the first statement.
UpsertDailyData(tbl, t, fault, symbol, date, close_price, market_cap, source, error) ==
    IF fault
    THEN [tbl |-> tbl, stmts |-> <<>>, raised |-> TRUE, existing |-> None]
    ELSE WriteDailyData(tbl, SelectDaily(tbl, symbol, date), t, symbol, date,
                        close_price, market_cap, source, error)

\* SELECT symbol FROM stock_metadata WHERE symbol = ?
SelectMeta(tbl, symbol) == {r \in tbl : r.symbol = symbol}

\* a stored value is kept, only an empty field is filled
UpsertStockMetadata_FillOnly(tbl, t, fault, symbol, name, exchange, market_cap) ==
    IF fault
    THEN [tbl |-> tbl, raised |-> TRUE]
    ELSE
    IF SelectMeta(tbl, symbol) /= {}
    THEN [tbl |-> {IF r.symbol = symbol
                   THEN [r EXCEPT
                           !.name = IF IsNone(@) THEN name ELSE @,
                           !.exchange = IF IsNone(@) THEN exchange ELSE @,
                           !.latest_market_cap =
                               IF IsNone(@) THEN market_cap ELSE @,
                           !.last_updated = t]
                   ELSE r : r \in tbl},
          raised |-> FALSE]
    ELSE [tbl |-> tbl \cup {[symbol |-> symbol, name |-> name,
                             exchange |-> exchange,
                             latest_market_cap |-> market_cap,
                             last_updated |-> t]},
          raised |-> FALSE]

\* upsert_stock_metadata
UpsertStockMetadata(tbl, t, fault, symbol, name, exchange, market_cap) ==
    IF fault
    THEN [tbl |-> tbl, raised |-> TRUE]
    ELSE
    IF SelectMeta(tbl, symbol) /= {}
    THEN [tbl |-> {IF r.symbol = symbol
                   THEN [r EXCEPT
                           !.name = IF NotNone(name) THEN name ELSE @,
                           !.exchange = IF NotNone(exchange) THEN exchange ELSE @,
                           !.latest_market_cap =
                               IF NotNone(market_cap) THEN market_cap ELSE @,
                           !.last_updated = t]
                   ELSE r : r \in tbl},
          raised |-> FALSE]
    ELSE [tbl |-> tbl \cup {[symbol |-> symbol, name |-> name,
                             exchange |-> exchange,
                             latest_market_cap |-> market_cap,
                             last_updated |-> t]},
          raised |-> FALSE]

----------------------------------------------------------------------------
(* Source adapters.  An adapter's fetch is the retry wrapper around a body *)
(* that returns an observation for every exception of its try block; a     *)
(* provider outcome is what the provider call does on one attempt.         *)

Obs(symbol, date, close_price, market_cap, source, error) ==
    [symbol |-> symbol, date |-> date, close_price |-> close_price,
     market_cap |-> market_cap, source |-> source, error |-> error]

\* placeholder for "adapter not called"
NoObs == Obs("", 0, None, None, "", None)

\* What yfinance does: history() raises (str(e) may be empty), returns an
\* empty frame, or returns a close; info carries marketCap, 0 or nothing.
\* "escape" is an exception that the body's handler does not turn into an
\* observation (one raised while the handler itself runs).
YahooOutcomes ==
    {[kind |-> "raise", msg |-> m, close |-> 0, cap |-> None] : m \in {"", "timeout"}}
    \cup {[kind |-> k, msg |-> "", close |-> 0, cap |-> None] : k \in {"empty", "escape"}}
    \cup {[kind |-> "data", msg |-> "", close |-> p, cap |-> c] :
            p \in Prices, c \in OptCap \cup {Some(0)}}

\* the exception leaves the body of fetch
Escapes(o) == o.kind = "escape"

\* YahooFinanceSource.fetch: the observation its body returns
YahooFetch(symbol, date, o) ==
    CASE o.kind = "raise" ->
            Obs(symbol, date, None, None, "yahoo", Some(o.msg))
      [] o.kind = "empty" ->
            Obs(symbol, date, None, None, "yahoo", Some("No price data found"))
      [] OTHER ->
            Obs(symbol, date, Some(o.close),
                IF NotNone(o.cap) /\ o.cap /= Some(0) THEN o.cap ELSE None,
                "yahoo", None)

\* the days a series may cover: the day before the first requestable date too
SeriesDates == 0..MaxDate

\* A daily time series: closes for a set of dates.
SeriesSet == UNION {[D -> Prices] : D \in SUBSET SeriesDates}

\* What the Alpha Vantage request does: a transport failure, another
\* exception, an error payload, a rate-limit note, or a payload with a
\* (possibly empty) time series; "escape" as for the Primary adapter.
AlphaOutcomes ==
    {[kind |-> k, series |-> <<>>] :
        k \in {"neterr", "raise", "error", "note", "escape"}}
    \cup {[kind |-> "series", series |-> ts] : ts \in SeriesSet}

\* the provider is not asked when the Primary adapter already has a close
NotAsked == [kind |-> "note", series |-> <<>>]

\* the candidate furthest back is taken
ClosestEarlier_Oldest(ts, date) ==
    LET cands == {d \in DOMAIN ts : d <= date}
    IN IF cands = {} THEN None
       ELSE Some(CHOOSE d \in cands : \A e \in cands : d <= e)

\* sorted(time_series.keys(), reverse=True), first available_date <= date
ClosestEarlier(ts, date) ==
    LET cands == {d \in DOMAIN ts : d <= date}
    IN IF cands = {} THEN None
       ELSE Some(CHOOSE d \in cands : \A e \in cands : e <= d)

\* AlphaVantageSource.fetch: the observation its body returns
AlphaFetch(symbol, date, o) ==
    CASE o.kind = "neterr" ->
            Obs(symbol, date, None, None, "alphavantage", Some("Network error"))
      [] o.kind = "raise" ->
            Obs(symbol, date, None, None, "alphavantage", Some("exception"))
      [] o.kind = "error" ->
            Obs(symbol, date, None, None, "alphavantage", Some("Error Message"))
      [] o.kind = "note" ->
            Obs(symbol, date, None, None, "alphavantage", Some("API rate limit"))
      [] OTHER ->
            IF DOMAIN o.series = {}
            THEN Obs(symbol, date, None, None, "alphavantage",
                     Some("No time series data available"))
            ELSE IF date \in DOMAIN o.series
            THEN Obs(symbol, date, Some(o.series[date]), None, "alphavantage", None)
            ELSE LET actual_date == ClosestEarlier(o.series, date)
                 IN IF NotNone(actual_date)
                    THEN Obs(symbol, actual_date[1], Some(o.series[actual_date[1]]),
                             None, "alphavantage", Some("Exact date not available"))
                    ELSE Obs(symbol, date, None, None, "alphavantage",
                             Some("No data available on or before"))

\* a rate-limit notice is raised instead of returned
AlphaAttempt_RaiseOnNote(symbol, date, o) ==
    IF Escapes(o) \/ o.kind = "note" THEN [kind |-> "retryable", value |-> NoObs]
    ELSE [kind |-> "ok", value |-> AlphaFetch(symbol, date, o)]

\* one invocation of the body of AlphaVantageSource.fetch, as the retry
\* wrapper sees it: every exception raised in the try block is caught by
\* the body and returned as an observation
AlphaAttempt(symbol, date, o) ==
    IF Escapes(o) THEN [kind |-> "retryable", value |-> NoObs]
    ELSE [kind |-> "ok", value |-> AlphaFetch(symbol, date, o)]

\* one invocation of the body of YahooFinanceSource.fetch, likewise
YahooAttempt(symbol, date, o) ==
    IF Escapes(o) THEN [kind |-> "retryable", value |-> NoObs]
    ELSE [kind |-> "ok", value |-> YahooFetch(symbol, date, o)]

----------------------------------------------------------------------------
(* Fetch coordinator *)

\* fetch_stock_data is left by the exception of an adapter's fetch: the
\* adapters called so far, no observation
FetchRaised(calls, yahoo_result) ==
    [result |-> NoObs, calls |-> calls, yahoo_result |-> yahoo_result,
     alpha_result |-> NoObs, raised |-> TRUE]

\* the Secondary adapter is called whatever the Primary adapter returned
FetchStockData_AlwaysBoth(symbol, date, yo, ao) ==
    IF Escapes(yo) THEN FetchRaised(<<"yahoo">>, NoObs) ELSE
    LET yahoo_result == YahooFetch(symbol, date, yo)
        alpha_result == AlphaFetch(symbol, date, ao)
    IN IF Escapes(ao)
       THEN FetchRaised(<<"yahoo", "alphavantage">>, yahoo_result)
       ELSE [result |-> IF NotNone(yahoo_result.close_price) THEN yahoo_result
                        ELSE IF NotNone(alpha_result.close_price) THEN alpha_result
                        ELSE IF Truthy(yahoo_result.error) THEN yahoo_result
                        ELSE alpha_result,
             calls |-> <<"yahoo", "alphavantage">>,
             yahoo_result |-> yahoo_result, alpha_result |-> alpha_result,
             raised |-> FALSE]

\* Primary's error is looked at before Secondary's close
FetchStockData_ErrorFirst(symbol, date, yo, ao) ==
    IF Escapes(yo) THEN FetchRaised(<<"yahoo">>, NoObs) ELSE
    LET yahoo_result == YahooFetch(symbol, date, yo)
        alpha_result == AlphaFetch(symbol, date, ao)
    IN IF NotNone(yahoo_result.close_price)
       THEN [result |-> yahoo_result, calls |-> <<"yahoo">>,
             yahoo_result |-> yahoo_result, alpha_result |-> NoObs,
             raised |-> FALSE]
       ELSE IF Escapes(ao)
       THEN FetchRaised(<<"yahoo", "alphavantage">>, yahoo_result)
       ELSE [result |-> IF Truthy(yahoo_result.error) THEN yahoo_result
                        ELSE alpha_result,
             calls |-> <<"yahoo", "alphavantage">>,
             yahoo_result |-> yahoo_result, alpha_result |-> alpha_result,
             raised |-> FALSE]

\* fetch_stock_data: the observation returned, the adapters called in
\* order, each adapter's result, and whether an adapter's fetch raised
\* (nothing catches that here).  yo and ao are what the provider did on the
\* attempt that ended each adapter's fetch.
FetchStockData(symbol, date, yo, ao) ==
    IF Escapes(yo) THEN FetchRaised(<<"yahoo">>, NoObs) ELSE
    LET yahoo_result == YahooFetch(symbol, date, yo)
        alpha_result == AlphaFetch(symbol, date, ao)
    IN IF NotNone(yahoo_result.close_price)
       THEN [result |-> yahoo_result, calls |-> <<"yahoo">>,
             yahoo_result |-> yahoo_result, alpha_result |-> NoObs,
             raised |-> FALSE]
       ELSE IF Escapes(ao)
       THEN FetchRaised(<<"yahoo", "alphavantage">>, yahoo_result)
       ELSE [result |-> IF NotNone(alpha_result.close_price) THEN alpha_result
                        ELSE IF Truthy(yahoo_result.error) THEN yahoo_result
                        ELSE alpha_result,
             calls |-> <<"yahoo", "alphavantage">>,
             yahoo_result |-> yahoo_result, alpha_result |-> alpha_result,
             raised |-> FALSE]

----------------------------------------------------------------------------
(* Initial state *)

\* a run of ingest: its arguments, its position in the two loops, its
\* counters, and the pairs whose loop body has run, in order
NoRun == [symbols |-> <<>>, start |-> 1, end |-> 0, si |-> 1, cur |-> 1,
          total_symbols |-> 0, total_dates |-> 0, successes |-> 0,
          failures |-> 0, failed_pairs |-> <<>>, attempted |-> <<>>]

\* the rate is taken over the successes and the symbols
Summary_PerSymbol(r) ==
    [total_symbols |-> r.total_symbols, total_dates |-> r.total_dates,
     successes |-> r.successes, failures |-> r.failures,
     failed_pairs |-> r.failed_pairs,
     success_rate |-> IF r.total_symbols > 0
                      THEN <<r.successes * 100, r.total_symbols>>
                      ELSE <<0, 1>>]

\* the summary dictionary; success_rate is the fraction numerator/denominator
Summary(r) ==
    [total_symbols |-> r.total_symbols, total_dates |-> r.total_dates,
     successes |-> r.successes, failures |-> r.failures,
     failed_pairs |-> r.failed_pairs,
     success_rate |-> IF r.total_dates > 0
                      THEN <<r.successes * 100, r.total_dates>>
                      ELSE <<0, 1>>]

\* how the last ingest ended, what it returned, and what became of its
\* commit
NoRet == [status |-> "none", summary |-> Summary(NoRun), commit |-> "none"]

NoLast == [op |-> "none", symbol |-> "", date |-> 0,
           close_price |-> None, market_cap |-> None, source |-> "",
           error |-> None, stmts |-> <<>>, raised |-> FALSE,
           existing |-> None, metaCalled |-> FALSE, calls |-> <<>>,
           yahoo_result |-> NoObs, alpha_result |-> NoObs, result |-> NoObs,
           fetchRaised |-> FALSE, name |-> None, exchange |-> None]

NoInput == [symbols |-> <<>>, start |-> 1, end |-> 0]

\* the repeated-run scenario: its phase, the inputs and the provider
\* responses of the first run, the position of the second run among them,
\* the tables after the first run, and whether storage failed in a run
NoIdem == [phase |-> "off", input |-> NoInput, log |-> <<>>, pos |-> 1,
           dailyAfter |-> {}, metaAfter |-> {}, faulted |-> FALSE]

\* the adapter call a wrapper frame serves: adapter, arguments, and what
\* the provider did on each attempt
NoCtx == [adapter |-> "", symbol |-> "", date |-> 0, asked |-> <<>>]

NoRetry == [phase |-> "idle", max_attempts |-> 0, initial_delay |-> 0,
            backoff_factor |-> 0, jitter |-> FALSE, attempt |-> 0,
            calls |-> 0, hist |-> <<>>, sleeps |-> <<>>,
            last_exception |-> None, outcome |-> None, ctx |-> NoCtx]

\* a caller of upsert_daily_data between its two statements: where it is,
\* its arguments, what its lookup fetched, and its outcome
Callers == {"A", "B"}
NoFrame == [at |-> "idle", symbol |-> "", date |-> 0, close_price |-> None,
            market_cap |-> None, source |-> "", error |-> None,
            found |-> {}, crossed |-> FALSE, stmts |-> <<>>,
            raised |-> FALSE, lost |-> FALSE]
NoFrames == [c \in Callers |-> NoFrame]

\* what a caller does with the orchestrator: two calls, each a direct
\* upsert_daily_data or an ingest
CallKinds == {"upsert", "ingest"}
Scripts == CallKinds \X CallKinds

\* DataOrchestrator.__init__ on an empty database
Init ==
    /\ daily = {}
    /\ meta = {}
    /\ now = 0
    /\ pc = "idle"
    /\ run = NoRun
    /\ ret = NoRet
    /\ last = NoLast
    /\ script \in Scripts
    /\ idem = NoIdem
    /\ rt = NoRetry
    /\ conn = "none"
    /\ frames = NoFrames
    /\ events = <<>>

----------------------------------------------------------------------------
(* Actions of the store and of ingest *)

\* source and error a direct caller passes: a clean Primary observation or
\* a Secondary observation with its date warning
Tags == {[source |-> "yahoo", error |-> None],
         [source |-> "alphavantage", error |-> Some("Exact date not available")]}

\* a caller holding an open connection calls upsert_daily_data
DirectUpsert ==
    /\ pc = "idle"
    /\ script /= <<>> /\ Head(script) = "upsert"
    /\ \E symbol \in Symbols, date \in Dates, close_price \in OptPrice,
          market_cap \in OptCap, tag \in Tags :
       \E up \in {UpsertDailyData(daily, now + 1, FALSE, symbol, date,
                                   close_price, market_cap, tag.source,
                                   tag.error)} :
          /\ daily' = up.tbl
          /\ last' = [NoLast EXCEPT !.op = "upsert", !.symbol = symbol,
                         !.date = date, !.close_price = close_price,
                         !.market_cap = market_cap, !.source = tag.source,
                         !.error = tag.error, !.stmts = up.stmts,
                         !.raised = up.raised, !.existing = up.existing]
    /\ now' = now + 1
    /\ script' = Tail(script)
    /\ UNCHANGED <<frames, events, meta, pc, run, ret, idem, rt>>
    /\ conn' = "open"

\* symbol lists given to ingest: no repetition
SymbolLists ==
    {<<>>} \cup {<<s>> : s \in Symbols}
    \cup {p \in Symbols \X Symbols : p[1] /= p[2]}

\* the inputs of ingest
AllSweeps == [symbols : SymbolLists, start : Dates, end : Dates]

\* the pair the sweep is at, after `cur` ran past `end`
Normalize(r) ==
    IF r.si <= Len(r.symbols) /\ r.cur > r.end
    THEN [r EXCEPT !.si = IF r.start <= r.end THEN r.si + 1
                           ELSE Len(r.symbols) + 1,
                   !.cur = r.start]
    ELSE r

\* ingest, up to the first pair: connect, create_tables, parse the dates,
\* initialise the counters
BeginIngest(symbols, start, end) ==
    Normalize([symbols |-> symbols, start |-> start, end |-> end,
               si |-> 1, cur |-> start,
               total_symbols |-> Len(symbols), total_dates |-> 0,
               successes |-> 0, failures |-> 0, failed_pairs |-> <<>>,
               attempted |-> <<>>])

\* number of pairs of a sweep
PairCount(symbols, start, end) ==
    Len(symbols) * (IF start <= end THEN end - start + 1 ELSE 0)

\* the sweeps a scripted caller asks for: one symbol or none, one day or
\* an empty range
Sweeps ==
    {in \in AllSweeps : in.symbols \notin Symbols \X Symbols /\ in.end <= in.start}

StartIngest ==
    /\ pc = "idle"
    /\ script /= <<>> /\ Head(script) = "ingest"
    /\ \E in \in Sweeps : run' = BeginIngest(in.symbols, in.start, in.end)
    /\ script' = Tail(script)
    /\ pc' = "sweep"
    /\ UNCHANGED <<frames, events, daily, meta, now, ret, last, idem, rt>>
    /\ conn' = "open"

\* faults of the storage engine while one pair is stored
Faults == {"none", "daily", "meta"}

\* the storage faults that can strike while the pair of these responses is
\* stored
FaultsFor(yo) ==
    IF Escapes(yo) THEN {"none"}
    ELSE IF yo.kind = "data" /\ NotNone(YahooFetch("", 0, yo).market_cap)
    THEN Faults ELSE Faults \ {"meta"}

\* an exception ends the dates of the symbol
CountPair_SkipSymbol(r, exc, result, symbol, current_date) ==
    LET success == ~exc /\ NotNone(result.close_price) IN
    [r EXCEPT !.total_dates = @ + 1,
              !.successes = IF success THEN @ + 1 ELSE @,
              !.failures = IF success THEN @ ELSE @ + 1,
              !.failed_pairs = IF success THEN @
                               ELSE Append(@, <<symbol, current_date>>),
              !.attempted = Append(@, <<symbol, current_date>>),
              !.cur = IF exc THEN r.end + 1 ELSE @ + 1]

\* an exception is logged and not counted
CountPair_ExceptionDropped(r, exc, result, symbol, current_date) ==
    LET success == ~exc /\ NotNone(result.close_price) IN
    [r EXCEPT !.total_dates = @ + 1,
              !.successes = IF success THEN @ + 1 ELSE @,
              !.failures = IF success \/ exc THEN @ ELSE @ + 1,
              !.failed_pairs = IF success \/ exc THEN @
                               ELSE Append(@, <<symbol, current_date>>),
              !.attempted = Append(@, <<symbol, current_date>>),
              !.cur = @ + 1]

\* the counting of one pair: total_dates before the try, then the success
\* branch, the failure branch or the except branch, then the next day
CountPair(r, exc, result, symbol, current_date) ==
    LET success == ~exc /\ NotNone(result.close_price) IN
    [r EXCEPT !.total_dates = @ + 1,
              !.successes = IF success THEN @ + 1 ELSE @,
              !.failures = IF success THEN @ ELSE @ + 1,
              !.failed_pairs = IF success THEN @
                               ELSE Append(@, <<symbol, current_date>>),
              !.attempted = Append(@, <<symbol, current_date>>),
              !.cur = @ + 1]

\* the metadata follows the daily record: written when the market cap was
\* adopted there
MetaDue_OnAdoption(up, result) ==
    ~up.raised /\ NotNone(result.market_cap) /\ up.stmts /= <<"SELECT">>

\* upsert_stock_metadata is reached: upsert_daily_data returned and
\* `result.get("market_cap") is not None`
MetaDue(up, result) == ~up.raised /\ NotNone(result.market_cap)

\* the record is keyed by the date the observation carries
StoreDate_Observed(current_date, result) == result.date

\* the date argument of upsert_daily_data: `date=current_date`
StoreDate(current_date, result) == current_date

\* the body of the while loop of ingest for the pair (symbol, current_date):
\* tables, counters and trace after it
PairStep(d, m, t, r, yo, ao, fault) ==
    LET symbol == r.symbols[r.si]
        current_date == r.cur
        f == FetchStockData(symbol, current_date, yo, ao)
        result == f.result
        up == IF f.raised
              THEN [tbl |-> d, stmts |-> <<>>, raised |-> FALSE, existing |-> None]
              ELSE UpsertDailyData(d, t, fault = "daily", symbol,
                                   StoreDate(current_date, result),
                                   result.close_price, result.market_cap,
                                   result.source, result.error)
        callMeta == ~f.raised /\ MetaDue(up, result)
        mu == IF callMeta
              THEN UpsertStockMetadata(m, t, fault = "meta", symbol, None, None,
                                       result.market_cap)
              ELSE [tbl |-> m, raised |-> FALSE]
        exc == f.raised \/ up.raised \/ mu.raised
    IN [daily |-> up.tbl, meta |-> mu.tbl,
        run |-> Normalize(CountPair(r, exc, result, symbol, current_date)),
        last |-> IF f.raised
                 THEN [NoLast EXCEPT !.op = "pair", !.symbol = symbol,
                                     !.date = current_date, !.raised = TRUE,
                                     !.calls = f.calls,
                                     !.yahoo_result = f.yahoo_result,
                                     !.fetchRaised = TRUE]
                 ELSE IF up.raised
                 THEN [NoLast EXCEPT !.op = "pair", !.symbol = symbol,
                                     !.date = current_date, !.raised = TRUE,
                                     !.market_cap = result.market_cap]
                 ELSE [op |-> "pair", symbol |-> symbol, date |-> current_date,
                       close_price |-> result.close_price,
                       market_cap |-> result.market_cap,
                       source |-> result.source, error |-> result.error,
                       stmts |-> up.stmts, raised |-> exc,
                       existing |-> up.existing,
                       metaCalled |-> callMeta, calls |-> f.calls,
                       yahoo_result |-> f.yahoo_result,
                       alpha_result |-> f.alpha_result, result |-> result,
                       fetchRaised |-> FALSE, name |-> None, exchange |-> None]]

ProcessPair ==
    /\ pc = "sweep"
    /\ idem.phase = "off"
    /\ run.si <= Len(run.symbols)
    /\ \E yo \in YahooOutcomes :
       \E ao \in IF yo.kind = "data" THEN {NotAsked} ELSE AlphaOutcomes :
       \E fault \in FaultsFor(yo) :
       \E st \in {PairStep(daily, meta, now + 1, run, yo, ao, fault)} :
          /\ daily' = st.daily
          /\ meta' = st.meta
          /\ run' = st.run
          /\ last' = st.last
    /\ now' = now + 1
    /\ UNCHANGED <<conn, frames, events, pc, ret, script, idem, rt>>

\* the end of the sweep: commit (no transaction was begun, every statement
\* was applied when it ran, so a rollback restores nothing), close, return
\* the summary or raise
FinishIngest ==
    /\ pc = "sweep"
    /\ run.si > Len(run.symbols)
    /\ \E commit_ok \in BOOLEAN :
          /\ ret' = IF commit_ok
                    THEN [status |-> "returned", summary |-> Summary(run),
                          commit |-> "ok"]
                    ELSE [status |-> "raised", summary |-> Summary(NoRun),
                          commit |-> "failed"]
          /\ idem' = IF idem.phase = "off" THEN idem
                     ELSE IF idem.phase = "first"
                     THEN [idem EXCEPT !.phase = "between", !.dailyAfter = daily,
                                       !.metaAfter = meta,
                                       !.faulted = @ \/ ~commit_ok]
                     ELSE [idem EXCEPT !.phase = "done",
                                       !.faulted = @ \/ ~commit_ok]
    /\ pc' = "idle"
    /\ run' = NoRun
    /\ UNCHANGED <<frames, events, daily, meta, now, last, script, rt>>
    /\ conn' = "closed"

Next ==
    \/ DirectUpsert
    \/ StartIngest
    \/ ProcessPair
    \/ FinishIngest

Spec == Init /\ [][Next]_vars

----------------------------------------------------------------------------
(* ingest called twice with the same inputs and the same provider responses *)

\* a record a failed pair of an earlier run left behind
Leftover == [symbol |-> "AAPL", date |-> 1, close_price |-> None,
             market_cap |-> None, source |-> "alphavantage",
             error |-> Some("API rate limit"), created_at |-> 0,
             updated_at |-> 0]

\* the sweeps of the scenario
IdemSweeps ==
    {in \in AllSweeps : PairCount(in.symbols, in.start, in.end) <= MaxPairs}

\* the provider responses of the scenario, <<Primary's, Secondary's>>:
\* Primary has a close of 150 with or without a market cap; Primary has
\* nothing and Secondary has the day; both fail
IdemResponses ==
    {<<yo, NotAsked>> : yo \in {o \in YahooOutcomes :
                                  o.kind = "data" /\ o.close = 150 /\ o.cap /= Some(0)}}
    \cup {<<[kind |-> "empty", msg |-> "", close |-> 0, cap |-> None],
            [kind |-> "series", series |-> [d \in Dates |-> 999]]>>,
          <<[kind |-> "raise", msg |-> "timeout", close |-> 0, cap |-> None],
            [kind |-> "note", series |-> <<>>]>>,
          <<[kind |-> "raise", msg |-> "", close |-> 0, cap |-> None],
            [kind |-> "error", series |-> <<>>]>>}

InitIdem ==
    /\ daily \in {{}, {Leftover}}
    /\ meta = {}
    /\ now = 0
    /\ pc = "idle"
    /\ run = NoRun
    /\ ret = NoRet
    /\ last = NoLast
    /\ script = <<>>
    /\ idem = [NoIdem EXCEPT !.phase = "ready"]
    /\ rt = NoRetry
    /\ conn = "none"
    /\ frames = NoFrames
    /\ events = <<>>

\* the first call of ingest
IngestFirst ==
    /\ pc = "idle" /\ idem.phase = "ready"
    /\ \E in \in IdemSweeps :
          /\ run' = BeginIngest(in.symbols, in.start, in.end)
          /\ idem' = [idem EXCEPT !.phase = "first", !.input = in]
    /\ pc' = "sweep"
    /\ UNCHANGED <<frames, events, daily, meta, now, ret, last, script, rt>>
    /\ conn' = "open"

\* a pair of the first run; the providers' responses are recorded
PairFirst ==
    /\ pc = "sweep" /\ idem.phase = "first"
    /\ run.si <= Len(run.symbols)
    /\ \E resp \in IdemResponses : \E fault \in FaultsFor(resp[1]) :
       \E st \in {PairStep(daily, meta, now + 1, run, resp[1], resp[2], fault)} :
          /\ daily' = st.daily
          /\ meta' = st.meta
          /\ run' = st.run
          /\ last' = st.last
          /\ idem' = [idem EXCEPT !.log = Append(@, resp),
                                  !.faulted = @ \/ fault /= "none"]
    /\ now' = now + 1
    /\ UNCHANGED <<conn, frames, events, pc, ret, script, rt>>

\* the second call of ingest, with the inputs of the first
IngestAgain ==
    /\ pc = "idle" /\ idem.phase = "between"
    /\ run' = BeginIngest(idem.input.symbols, idem.input.start, idem.input.end)
    /\ idem' = [idem EXCEPT !.phase = "second", !.pos = 1]
    /\ pc' = "sweep"
    /\ UNCHANGED <<frames, events, daily, meta, now, ret, last, script, rt>>
    /\ conn' = "open"

\* a pair of the second run; the providers respond as in the first run
PairAgain ==
    /\ pc = "sweep" /\ idem.phase = "second"
    /\ run.si <= Len(run.symbols)
    /\ LET resp == idem.log[idem.pos] IN
       \E fault \in FaultsFor(resp[1]) :
       \E st \in {PairStep(daily, meta, now + 1, run, resp[1], resp[2], fault)} :
          /\ daily' = st.daily
          /\ meta' = st.meta
          /\ run' = st.run
          /\ last' = st.last
          /\ idem' = [idem EXCEPT !.pos = @ + 1,
                                  !.faulted = @ \/ fault /= "none"]
    /\ now' = now + 1
    /\ UNCHANGED <<conn, frames, events, pc, ret, script, rt>>

NextIdem ==
    \/ IngestFirst
    \/ PairFirst
    \/ FinishIngest
    \/ IngestAgain
    \/ PairAgain

SpecIdem == InitIdem /\ [][NextIdem]_vars

----------------------------------------------------------------------------
(* One ingest over any symbols and any date range, on an empty database *)

\* what the two providers do for a pair: a close with a market cap from the
\* Primary, nothing from either, an exception out of the Primary's fetch
SweepResponses ==
    {[yo |-> [kind |-> "data", msg |-> "", close |-> 150, cap |-> Some(2000000000)],
      ao |-> NotAsked],
     [yo |-> [kind |-> "empty", msg |-> "", close |-> 0, cap |-> None],
      ao |-> [kind |-> "note", series |-> <<>>]],
     [yo |-> [kind |-> "escape", msg |-> "", close |-> 0, cap |-> None],
      ao |-> NotAsked]}

InitSweep ==
    /\ daily = {}
    /\ meta = {}
    /\ now = 0
    /\ pc = "idle"
    /\ run = NoRun
    /\ ret = NoRet
    /\ last = NoLast
    /\ script = <<>>
    /\ idem = [NoIdem EXCEPT !.phase = "sweep"]
    /\ rt = NoRetry
    /\ conn = "none"
    /\ frames = NoFrames
    /\ events = <<>>

\* ingest(symbols, start_date, end_date)
SweepStart ==
    /\ pc = "idle"
    /\ idem.phase = "sweep"
    /\ \E in \in AllSweeps : run' = BeginIngest(in.symbols, in.start, in.end)
    /\ pc' = "sweep"
    /\ UNCHANGED <<frames, events, daily, meta, now, ret, last, script, idem, rt>>
    /\ conn' = "open"

\* the loop body for the pair the sweep is at
SweepPair ==
    /\ pc = "sweep"
    /\ idem.phase = "sweep"
    /\ run.si <= Len(run.symbols)
    /\ \E resp \in SweepResponses :
       \E fault \in FaultsFor(resp.yo) :
       \E st \in {PairStep(daily, meta, now + 1, run, resp.yo, resp.ao, fault)} :
          /\ daily' = st.daily
          /\ meta' = st.meta
          /\ run' = st.run
          /\ last' = st.last
    /\ now' = now + 1
    /\ UNCHANGED <<conn, frames, events, pc, ret, script, idem, rt>>

NextSweep ==
    \/ SweepStart
    \/ SweepPair
    \/ FinishIngest

SpecSweep == InitSweep /\ [][NextSweep]_vars

----------------------------------------------------------------------------
(* Two callers of upsert_daily_data on one database, each statement a step *)

\* the database holds nothing, or the record of a failed attempt
InitRace ==
    /\ daily \in {{}, {Leftover}}
    /\ meta = {}
    /\ now = 1
    /\ pc = "idle"
    /\ run = NoRun
    /\ ret = NoRet
    /\ last = NoLast
    /\ script = <<>>
    /\ idem = NoIdem
    /\ rt = NoRetry
    /\ conn = "open"
    /\ frames = NoFrames
    /\ events = <<>>

\* caller c enters upsert_daily_data and runs its SELECT
RaceLookup(c) ==
    /\ frames[c].at = "idle"
    /\ \E symbol \in Symbols, close_price \in OptPrice, market_cap \in OptCap,
          tag \in Tags :
          frames' = [frames EXCEPT ![c] =
                       [NoFrame EXCEPT !.at = "looked", !.symbol = symbol,
                                       !.date = 1, !.close_price = close_price,
                                       !.market_cap = market_cap,
                                       !.source = tag.source, !.error = tag.error,
                                       !.found = SelectDaily(daily, symbol, 1)]]
    /\ UNCHANGED <<daily, meta, now, pc, run, ret, last, script, idem, rt,
                   conn, events>>

\* a value stored under the key is non-null in `before` and another in `after`
Overwritten(before, after, symbol, date) ==
    \E r \in SelectDaily(before, symbol, date) :
    \E q \in SelectDaily(after, symbol, date) :
       \/ NotNone(r.close_price) /\ q.close_price /= r.close_price
       \/ NotNone(r.market_cap) /\ q.market_cap /= r.market_cap

\* caller c goes on from its SELECT to its UPDATE, its INSERT or nothing
RaceWrite(c) ==
    /\ frames[c].at = "looked"
    /\ \E w \in {WriteDailyData(daily, frames[c].found, now + 1,
                                 frames[c].symbol, frames[c].date,
                                 frames[c].close_price, frames[c].market_cap,
                                 frames[c].source, frames[c].error)} :
          /\ daily' = w.tbl
          /\ frames' = [d \in Callers |->
                IF d = c
                THEN [frames[c] EXCEPT
                        !.at = "done", !.stmts = w.stmts, !.raised = w.raised,
                        !.lost = Overwritten(daily, w.tbl, frames[c].symbol,
                                             frames[c].date)]
                ELSE IF /\ frames[d].at = "looked"
                        /\ frames[d].symbol = frames[c].symbol
                        /\ frames[d].date = frames[c].date
                        /\ Len(w.stmts) = 2 /\ ~w.raised
                THEN [frames[d] EXCEPT !.crossed = TRUE]
                ELSE frames[d]]
    /\ now' = now + 1
    /\ UNCHANGED <<meta, pc, run, ret, last, script, idem, rt, conn, events>>

NextRace ==
    \/ \E c \in Callers : RaceLookup(c)
    \/ \E c \in Callers : RaceWrite(c)

SpecRace == InitRace /\ [][NextRace]_vars

----------------------------------------------------------------------------
(* ingest statement by statement: connect, create_tables, the two          *)
(* strptime calls, then for each pair the fetch, upsert_daily_data,        *)
(* upsert_stock_metadata and the counting, then commit and close           *)

InitSeq ==
    /\ daily = {}
    /\ meta = {}
    /\ now = 0
    /\ pc = "idle"
    /\ run = NoRun
    /\ ret = NoRet
    /\ last = NoLast
    /\ script = <<>>
    /\ idem = NoIdem
    /\ rt = NoRetry
    /\ conn = "none"
    /\ frames = NoFrames
    /\ events = <<>>

\* ingest raises to its caller
Raised == [status |-> "raised", summary |-> Summary(NoRun), commit |-> "none"]

\* an entry of the log: a call made for a pair and whether it raised
Event(call, symbol, date, raised) ==
    [call |-> call, symbol |-> symbol, date |-> date, raised |-> raised]

\* self.connect(): duckdb.connect succeeds, or raises out of ingest
SeqConnect ==
    /\ pc = "idle" /\ ret.status = "none"
    /\ \E in \in AllSweeps, ok \in BOOLEAN :
          IF ok
          THEN /\ conn' = "open"
               /\ pc' = "create"
               /\ run' = [NoRun EXCEPT !.symbols = in.symbols,
                                       !.start = in.start, !.end = in.end]
               /\ ret' = ret
          ELSE /\ ret' = Raised
               /\ UNCHANGED <<conn, pc, run>>
    /\ UNCHANGED <<daily, meta, now, last, script, idem, rt, frames, events>>

\* self.create_tables(): outside the try block, so a failure leaves ingest
\* without reaching the finally clause
SeqCreateTables ==
    /\ pc = "create"
    /\ \E ok \in BOOLEAN :
          IF ok THEN pc' = "parse" /\ ret' = ret
          ELSE pc' = "idle" /\ ret' = Raised
    /\ UNCHANGED <<daily, meta, now, run, last, script, idem, rt, conn,
                   frames, events>>

\* datetime.strptime of start_date and end_date (ValueError on a malformed
\* date), then the counters; also outside the try block
SeqParse ==
    /\ pc = "parse"
    /\ \E ok \in BOOLEAN :
          IF ok
          THEN /\ pc' = "fetch"
               /\ run' = BeginIngest(run.symbols, run.start, run.end)
               /\ ret' = ret
          ELSE /\ pc' = "idle"
               /\ ret' = Raised
               /\ run' = run
    /\ UNCHANGED <<daily, meta, now, last, script, idem, rt, conn, frames,
                   events>>

\* result = self.fetch_stock_data(symbol, current_date)
SeqFetch ==
    /\ pc = "fetch"
    /\ run.si <= Len(run.symbols)
    /\ \E resp \in SweepResponses :
       \E f \in {FetchStockData(run.symbols[run.si], run.cur, resp.yo, resp.ao)} :
          /\ last' = [NoLast EXCEPT
                         !.op = "pair", !.symbol = run.symbols[run.si],
                         !.date = run.cur, !.result = f.result,
                         !.close_price = f.result.close_price,
                         !.market_cap = f.result.market_cap,
                         !.source = f.result.source, !.error = f.result.error,
                         !.calls = f.calls, !.yahoo_result = f.yahoo_result,
                         !.alpha_result = f.alpha_result,
                         !.fetchRaised = f.raised, !.raised = f.raised]
          /\ events' = Append(events, Event("fetch", run.symbols[run.si],
                                            run.cur, f.raised))
          /\ pc' = IF f.raised THEN "except" ELSE "daily"
    /\ UNCHANGED <<daily, meta, now, run, ret, script, idem, rt, conn, frames>>

\* the metadata is written whenever the observation has a market cap
AfterDaily_MetaAnyway(up, result) ==
    IF NotNone(result.market_cap) THEN "meta"
    ELSE IF up.raised THEN "except" ELSE "count"

\* where ingest goes on after upsert_daily_data: the except clause, the
\* metadata call, or the counting
AfterDaily(up, result) ==
    IF up.raised THEN "except"
    ELSE IF MetaDue(up, result) THEN "meta" ELSE "count"

\* self.upsert_daily_data(symbol, current_date, ...)
SeqDaily ==
    /\ pc = "daily"
    /\ \E fault \in BOOLEAN :
       \E up \in {UpsertDailyData(daily, now + 1, fault, last.symbol,
                                   StoreDate(last.date, last.result),
                                   last.result.close_price,
                                   last.result.market_cap, last.result.source,
                                   last.result.error)} :
          /\ daily' = up.tbl
          /\ last' = [last EXCEPT !.stmts = up.stmts, !.raised = up.raised,
                                  !.existing = up.existing]
          /\ events' = Append(events, Event("daily", last.symbol, last.date,
                                            up.raised))
          /\ pc' = AfterDaily(up, last.result)
    /\ now' = now + 1
    /\ UNCHANGED <<meta, run, ret, script, idem, rt, conn, frames>>

\* self.upsert_stock_metadata(symbol, market_cap=...)
SeqMeta ==
    /\ pc = "meta"
    /\ \E fault \in BOOLEAN :
       \E mu \in {UpsertStockMetadata(meta, now, fault, last.symbol, None, None,
                                       last.result.market_cap)} :
          /\ meta' = mu.tbl
          /\ last' = [last EXCEPT !.metaCalled = TRUE, !.raised = mu.raised]
          /\ events' = Append(events, Event("meta", last.symbol, last.date,
                                            mu.raised))
          /\ pc' = IF mu.raised THEN "except" ELSE "count"
    /\ UNCHANGED <<daily, now, run, ret, script, idem, rt, conn, frames>>

\* the success or failure branch, or the except clause; then the next day
SeqCount ==
    /\ pc \in {"count", "except"}
    /\ run' = Normalize(CountPair(run, pc = "except", last.result, last.symbol,
                                  last.date))
    /\ pc' = "fetch"
    /\ UNCHANGED <<daily, meta, now, ret, last, script, idem, rt, conn, frames,
                   events>>

\* self.conn.commit(); on its failure rollback and raise; finally close
SeqCommit ==
    /\ pc = "fetch"
    /\ run.si > Len(run.symbols)
    /\ \E commit_ok \in BOOLEAN :
          ret' = IF commit_ok
                 THEN [status |-> "returned", summary |-> Summary(run),
                       commit |-> "ok"]
                 ELSE [status |-> "raised", summary |-> Summary(NoRun),
                       commit |-> "failed"]
    /\ conn' = "closed"
    /\ pc' = "idle"
    /\ UNCHANGED <<daily, meta, now, run, last, script, idem, rt, frames, events>>

NextSeq ==
    \/ SeqConnect
    \/ SeqCreateTables
    \/ SeqParse
    \/ SeqFetch
    \/ SeqDaily
    \/ SeqMeta
    \/ SeqCount
    \/ SeqCommit

SpecSeq == InitSeq /\ [][NextSeq]_vars

----------------------------------------------------------------------------
(* upsert_stock_metadata called directly, with any arguments *)

Names == {None, Some("Apple"), Some("Apple Inc.")}
Exchanges == {None, Some("NASDAQ")}

\* a caller holding an open connection calls upsert_stock_metadata
MetaUpsert ==
    /\ pc = "idle"
    /\ now < MaxMetaCalls
    /\ \E symbol \in Symbols, name \in Names, exchange \in Exchanges,
          market_cap \in OptCap :
       \E mu \in {UpsertStockMetadata(meta, now + 1, FALSE, symbol, name,
                                       exchange, market_cap)} :
          /\ meta' = mu.tbl
          /\ last' = [NoLast EXCEPT !.op = "meta", !.symbol = symbol,
                         !.name = name, !.exchange = exchange,
                         !.market_cap = market_cap, !.raised = mu.raised]
    /\ now' = now + 1
    /\ UNCHANGED <<frames, events, daily, pc, run, ret, script, idem, rt>>
    /\ conn' = "open"

\* an orchestrator connected to an empty database
InitMeta ==
    /\ daily = {}
    /\ meta = {}
    /\ now = 0
    /\ pc = "idle"
    /\ run = NoRun
    /\ ret = NoRet
    /\ last = NoLast
    /\ script = <<>>
    /\ idem = NoIdem
    /\ rt = NoRetry
    /\ conn = "none"
    /\ frames = NoFrames
    /\ events = <<>>

NextMeta == MetaUpsert

SpecMeta == InitMeta /\ [][NextMeta]_vars

----------------------------------------------------------------------------
(* The retry wrapper.  Delays are in tenths of a second.  An exception is  *)
(* the pair <<kind, n>> of its kind and the invocation n that raised it.   *)

RECURSIVE Pow(_, _)
Pow(b, e) == IF e = 0 THEN 1 ELSE b * Pow(b, e - 1)

\* random.uniform(0, 0.5), in tenths
JitterAmounts == {0, 2, 5}

\* the exponent is the attempt number itself
SleepWithBackoff_NextAttempt(attempt, base_delay, backoff_factor, jitter, j) ==
    base_delay * Pow(backoff_factor, attempt) + (IF jitter THEN j ELSE 0)

\* sleep_with_backoff: the delay slept, j the jitter drawn
SleepWithBackoff(attempt, base_delay, backoff_factor, jitter, j) ==
    base_delay * Pow(backoff_factor, attempt - 1) + (IF jitter THEN j ELSE 0)

\* what one invocation of the wrapped function does: returns a value, raises
\* an exception of allowed_exceptions, or raises another exception
OpOutcomes ==
    {[kind |-> "ok", value |-> v] : v \in {"r1", "r2"}}
    \cup {[kind |-> k, value |-> ""] : k \in {"retryable", "fatal"}}

\* wrapper is entered: last_exception = None, the for loop starts
RetryEnter(max_attempts, initial_delay, backoff_factor, jitter) ==
    [NoRetry EXCEPT !.phase = "loop", !.max_attempts = max_attempts,
                    !.initial_delay = initial_delay,
                    !.backoff_factor = backoff_factor, !.jitter = jitter,
                    !.attempt = 1]

\* a range that stops one short
InRange_Short(r) == r.attempt < r.max_attempts

\* range(1, max_attempts + 1) still has the value r.attempt
InRange(r) == r.attempt <= r.max_attempts

\* one iteration of the for loop whose call returns: return func(...)
RetryOk(r, o) ==
    [r EXCEPT !.phase = "returned", !.calls = @ + 1, !.hist = Append(@, o),
              !.outcome = Some(o.value)]

\* every exception is handled as an allowed one
RetryPropagate_Caught(r, o) ==
    IF r.attempt = r.max_attempts
    THEN [r EXCEPT !.phase = "raised", !.calls = @ + 1, !.hist = Append(@, o),
                   !.outcome = Some(<<"fatal", r.calls + 1>>)]
    ELSE [r EXCEPT !.calls = @ + 1, !.hist = Append(@, o),
                   !.sleeps = Append(@, r.initial_delay),
                   !.attempt = @ + 1]

\* one iteration whose call raises an exception outside allowed_exceptions:
\* no except clause matches, it propagates
RetryPropagate(r, o) ==
    [r EXCEPT !.phase = "raised", !.calls = @ + 1, !.hist = Append(@, o),
              !.outcome = Some(<<"fatal", r.calls + 1>>)]

\* one iteration whose call raises an allowed exception: remember it; on
\* the last attempt break and re-raise it, otherwise sleep and go on
RetryCaught(r, o, j) ==
    LET e == <<"retryable", r.calls + 1>> IN
    IF r.attempt = r.max_attempts
    THEN [r EXCEPT !.phase = "raised", !.calls = @ + 1, !.hist = Append(@, o),
                   !.last_exception = Some(e), !.outcome = Some(e)]
    ELSE [r EXCEPT !.calls = @ + 1, !.hist = Append(@, o),
                   !.last_exception = Some(e),
                   !.sleeps = Append(@, SleepWithBackoff(r.attempt,
                                 r.initial_delay, r.backoff_factor, r.jitter, j)),
                   !.attempt = @ + 1]

\* the loop ended without a break (max_attempts < 1): raise last_exception,
\* which is a TypeError while last_exception is None
RetryEmpty(r) ==
    [r EXCEPT !.phase = "raised",
              !.outcome = IF IsNone(r.last_exception)
                          THEN Some(<<"TypeError", 0>>)
                          ELSE r.last_exception]

RetryCall ==
    /\ rt.phase = "idle"
    /\ \E m \in 0..MaxAttempts, d \in {5, 10}, f \in {1, 2}, jitter \in BOOLEAN :
          rt' = RetryEnter(m, d, f, jitter)
    /\ UNCHANGED <<conn, frames, events, daily, meta, now, pc, run, ret, last, script, idem>>

RetryReturn ==
    /\ rt.phase = "loop" /\ InRange(rt)
    /\ \E o \in {x \in OpOutcomes : x.kind = "ok"} : rt' = RetryOk(rt, o)
    /\ UNCHANGED <<conn, frames, events, daily, meta, now, pc, run, ret, last, script, idem>>

RetryFatal ==
    /\ rt.phase = "loop" /\ InRange(rt)
    /\ \E o \in {x \in OpOutcomes : x.kind = "fatal"} : rt' = RetryPropagate(rt, o)
    /\ UNCHANGED <<conn, frames, events, daily, meta, now, pc, run, ret, last, script, idem>>

RetryFail ==
    /\ rt.phase = "loop" /\ InRange(rt)
    /\ \E o \in {x \in OpOutcomes : x.kind = "retryable"} :
       \E j \in IF rt.jitter /\ rt.attempt < rt.max_attempts
                THEN JitterAmounts ELSE {0} :
          rt' = RetryCaught(rt, o, j)
    /\ UNCHANGED <<conn, frames, events, daily, meta, now, pc, run, ret, last, script, idem>>

RetryNoAttempt ==
    /\ rt.phase = "loop" /\ ~InRange(rt)
    /\ rt' = RetryEmpty(rt)
    /\ UNCHANGED <<conn, frames, events, daily, meta, now, pc, run, ret, last, script, idem>>

InitRetry ==
    /\ daily = {}
    /\ meta = {}
    /\ now = 0
    /\ pc = "idle"
    /\ run = NoRun
    /\ ret = NoRet
    /\ last = NoLast
    /\ script = <<>>
    /\ idem = NoIdem
    /\ rt = NoRetry
    /\ conn = "none"
    /\ frames = NoFrames
    /\ events = <<>>

NextRetry ==
    \/ RetryCall
    \/ RetryReturn
    \/ RetryFatal
    \/ RetryFail
    \/ RetryNoAttempt

SpecRetry == InitRetry /\ [][NextRetry]_vars

----------------------------------------------------------------------------
(* An adapter's fetch: the body under                                      *)
(* @retry_on_exception(max_attempts=3, initial_delay=1.0,                  *)
(* backoff_factor=2.0), jitter left at its default                         *)

ProviderOutcomes(adapter) ==
    IF adapter = "yahoo" THEN YahooOutcomes ELSE AlphaOutcomes

\* one invocation of the adapter's body
Attempt(adapter, symbol, date, o) ==
    IF adapter = "yahoo" THEN YahooAttempt(symbol, date, o)
    ELSE AlphaAttempt(symbol, date, o)

\* source.fetch(symbol, date) is called
FetchCall ==
    /\ rt.phase = "idle"
    /\ \E adapter \in Sources, symbol \in Symbols, date \in Dates :
          rt' = [RetryEnter(3, 10, 2, TRUE) EXCEPT
                   !.ctx = [adapter |-> adapter, symbol |-> symbol,
                            date |-> date, asked |-> <<>>]]
    /\ UNCHANGED <<conn, frames, events, daily, meta, now, pc, run, ret, last, script, idem>>

\* one iteration of the wrapper's loop around the body
FetchAttempt ==
    /\ rt.phase = "loop" /\ InRange(rt)
    /\ \E o \in ProviderOutcomes(rt.ctx.adapter) :
       \E b \in {Attempt(rt.ctx.adapter, rt.ctx.symbol, rt.ctx.date, o)} :
       \E j \in IF b.kind = "retryable" /\ rt.attempt < rt.max_attempts
                THEN JitterAmounts ELSE {0} :
          rt' = [(IF b.kind = "ok" THEN RetryOk(rt, b) ELSE RetryCaught(rt, b, j))
                   EXCEPT !.ctx.asked = Append(@, o)]
    /\ UNCHANGED <<conn, frames, events, daily, meta, now, pc, run, ret, last, script, idem>>

NextFetch ==
    \/ FetchCall
    \/ FetchAttempt

SpecFetch == InitRetry /\ [][NextFetch]_vars

----------------------------------------------------------------------------
(* Properties *)

\* the row stored for a key, when there is exactly one
RowOf(tbl, symbol, date) == CHOOSE r \in SelectDaily(tbl, symbol, date) : TRUE
HasRow(tbl, symbol, date) == SelectDaily(tbl, symbol, date) /= {}

\* this step ran upsert_daily_data (by a direct call or for a pair of a
\* sweep) and its lookup was executed; last' holds the incoming values
Upserted ==
    /\ \/ pc = "idle" /\ pc' = "idle" /\ script' /= script
       \/ pc = "sweep" /\ pc' = "sweep" /\ run'.total_dates /= run.total_dates
    /\ last'.stmts /= <<>>

\* the null-preserving choice between a stored and an incoming value
Merged(stored, incoming) == IF NotNone(stored) THEN stored ELSE incoming

NothingAdopted(row, close_price, market_cap) ==
    /\ NotNone(row.close_price) \/ IsNone(close_price)
    /\ NotNone(row.market_cap) \/ IsNone(market_cap)

C4_AdoptionOverwritesTag ==
    [][(/\ Upserted
        /\ HasRow(daily, last'.symbol, last'.date)
        /\ ~NothingAdopted(RowOf(daily, last'.symbol, last'.date),
                           last'.close_price, last'.market_cap)) =>
         /\ last'.stmts = <<"SELECT", "UPDATE">>
         /\ \A r \in SelectDaily(daily', last'.symbol, last'.date) :
              /\ r.source = last'.source
              /\ r.error = last'.error
              /\ r.updated_at = now']_vars

\* a record without price was repaired: close_price 150, error null,
\* updated later than created
C4_Witness ==
    /\ last.op \in {"upsert", "pair"}
    /\ last.stmts = <<"SELECT", "UPDATE">>
    /\ last.existing = Some(<<None, None>>)
    /\ last.close_price = Some(150) /\ last.error = None
    /\ HasRow(daily, last.symbol, last.date)
    /\ LET r == RowOf(daily, last.symbol, last.date)
       IN /\ r.close_price = Some(150) /\ r.error = None
          /\ r.created_at < r.updated_at

\* at most one row per (symbol, date)
UniqueKeys(tbl) ==
    \A r1 \in tbl, r2 \in tbl :
        (r1.symbol = r2.symbol /\ r1.date = r2.date) => r1 = r2

\* both runs are over and storage failed in neither
BothRunsClean == idem.phase = "done" /\ ~idem.faulted

\* the metadata table without last_updated
MetaValues(tbl) ==
    {[symbol |-> r.symbol, name |-> r.name, exchange |-> r.exchange,
      latest_market_cap |-> r.latest_market_cap] : r \in tbl}

C6_OneRecordKept ==
    [][/\ UniqueKeys(daily')
       /\ \A r \in daily :
            \E n \in daily' : /\ n.symbol = r.symbol /\ n.date = r.date
                              /\ n.created_at = r.created_at]_vars

\* a record was updated after its creation and kept its created_at
C6_Witness ==
    /\ last.stmts = <<"SELECT", "UPDATE">>
    /\ HasRow(daily, last.symbol, last.date)
    /\ LET r == RowOf(daily, last.symbol, last.date)
       IN r.created_at < r.updated_at /\ r.updated_at = now

\* the last pair's fetch_stock_data returned (its trace is recorded)
Fetched == last.op = "pair" /\ last.calls /= <<>> /\ ~last.fetchRaised

\* C7: fetch_stock_data calls the Primary adapter first and the Secondary
\* adapter only after it; when Primary's close_price is non-null it returns
\* Primary's result and the Secondary adapter is not called.
C7_PrimaryFirst ==
    Fetched =>
      /\ last.calls[1] = "yahoo"
      /\ \A i \in 2..Len(last.calls) : last.calls[i] = "alphavantage"
      /\ Len(last.calls) <= 2
      /\ NotNone(last.yahoo_result.close_price) =>
           /\ last.calls = <<"yahoo">>
           /\ last.result = last.yahoo_result
           /\ last.alpha_result = NoObs

C7_Witness ==
    /\ Fetched
    /\ NotNone(last.yahoo_result.close_price)
    /\ last.calls = <<"yahoo">>

\* C8: when Primary has no close_price and Secondary has one,
\* fetch_stock_data returns Secondary's observation as it is, and for a key
\* without a record the ingest stores a record with source alphavantage and
\* Secondary's close_price.
C8_FallbackToSecondary ==
    (/\ Fetched
     /\ IsNone(last.yahoo_result.close_price)
     /\ NotNone(last.alpha_result.close_price)) =>
      /\ last.result = last.alpha_result
      /\ last.existing = None =>
           /\ HasRow(daily, last.symbol, last.date)
           /\ \A r \in SelectDaily(daily, last.symbol, last.date) :
                /\ r.source = "alphavantage"
                /\ r.close_price = last.alpha_result.close_price

C8_Witness ==
    /\ Fetched
    /\ NotNone(last.yahoo_result.error)
    /\ last.alpha_result.close_price = Some(999)
    /\ last.existing = None
    /\ HasRow(daily, last.symbol, last.date)
    /\ RowOf(daily, last.symbol, last.date).source = "alphavantage"

\* both adapters were called and neither has a close_price
BothFailed ==
    /\ Fetched
    /\ last.calls = <<"yahoo", "alphavantage">>
    /\ IsNone(last.yahoo_result.close_price)
    /\ IsNone(last.alpha_result.close_price)

\* C9 as stated: with both close_price null, the result is Primary's when
\* Primary's error is non-null, and Secondary's otherwise.
C9_AsStated ==
    BothFailed =>
      last.result = IF NotNone(last.yahoo_result.error)
                    THEN last.yahoo_result ELSE last.alpha_result

\* C9 amended: with both close_price null, the result is Primary's when
\* Primary's error is a non-empty message, and Secondary's when it is null
\* or the empty string.
C9_ErrorTieBreak ==
    BothFailed =>
      last.result = IF NotNone(last.yahoo_result.error)
                       /\ last.yahoo_result.error /= Some("")
                    THEN last.yahoo_result ELSE last.alpha_result

C9_Witness ==
    /\ BothFailed
    /\ last.yahoo_result.error = Some("")
    /\ last.result = last.alpha_result
    /\ last.result.source = "alphavantage"

\* the attempts made so far all raised an allowed exception
AllRetryable(h) == \A i \in 1..Len(h) : h[i].kind = "retryable"
NoFatal(h) == \A i \in 1..Len(h) : h[i].kind /= "fatal"

\* C10: with max_attempts = m >= 1 and only retryable failures, the wrapper
\* makes no call after a success; it returns exactly at the first
\* successful attempt k <= m, with that attempt's value; it raises exactly
\* after m failed calls, with the exception of call m; and while it has
\* done neither, fewer than m calls have been made, all failed.
C10_AttemptCount ==
    (rt.phase /= "idle" /\ rt.max_attempts >= 1 /\ NoFatal(rt.hist)) =>
      LET n == Len(rt.hist) IN
      /\ rt.calls = n
      /\ n <= rt.max_attempts
      /\ \A i \in 1..(n - 1) : rt.hist[i].kind = "retryable"
      /\ rt.phase = "returned" =>
           /\ n >= 1 /\ rt.hist[n].kind = "ok"
           /\ rt.outcome = Some(rt.hist[n].value)
      /\ rt.phase = "raised" =>
           /\ AllRetryable(rt.hist)
           /\ n = rt.max_attempts
           /\ rt.outcome = Some(<<"retryable", rt.max_attempts>>)
      /\ rt.phase = "loop" =>
           /\ AllRetryable(rt.hist)
           /\ n < rt.max_attempts

\* max_attempts = 3, three failed calls, the third exception raised
C10_Witness ==
    /\ rt.phase = "raised"
    /\ rt.max_attempts = 3
    /\ rt.calls = 3
    /\ AllRetryable(rt.hist)
    /\ rt.outcome = Some(<<"retryable", 3>>)

\* number of attempts in h that raised an allowed exception
Failures(h) == Cardinality({i \in 1..Len(h) : h[i].kind = "retryable"})

\* the wrapper's call ended by re-raising the last allowed exception
Exhausted == rt.phase = "raised" /\ rt.hist /= <<>>
                 /\ rt.hist[Len(rt.hist)].kind = "retryable"

\* C11: the wrapper has slept once for every failed attempt but the final
\* one (none after the failure of attempt max_attempts), and sleep n, made
\* after failed attempt n, lasted initial_delay * backoff_factor^(n-1) with
\* jitter disabled (and at most 0.5 s more with jitter).
C11_SleepsBetweenAttempts ==
    rt.phase /= "idle" =>
      /\ Len(rt.sleeps) = Failures(rt.hist) - (IF Exhausted THEN 1 ELSE 0)
      /\ \A n \in 1..Len(rt.sleeps) :
           LET base == rt.initial_delay * Pow(rt.backoff_factor, n - 1)
           IN /\ rt.hist[n].kind = "retryable"
              /\ n < rt.max_attempts
              /\ ~rt.jitter => rt.sleeps[n] = base
              /\ rt.jitter => rt.sleeps[n] \in base..(base + 5)

\* max_attempts = 3 exhausted with base delay 1 s and factor 2: two sleeps,
\* of 1 s and 2 s
C11_Witness ==
    /\ Exhausted
    /\ rt.max_attempts = 3 /\ rt.calls = 3
    /\ rt.initial_delay = 10 /\ rt.backoff_factor = 2 /\ ~rt.jitter
    /\ rt.sleeps = <<10, 20>>

\* the adapter call has ended, by a return or by a raise
FetchEnded == rt.phase \in {"returned", "raised"} /\ rt.ctx.asked /= <<>>

\* a network or transport failure of the provider call
Transport(adapter, o) ==
    \/ adapter = "yahoo" /\ o.kind = "raise"
    \/ adapter = "alphavantage" /\ o.kind = "neterr"

\* C12: a transport failure of the provider call on an attempt before the
\* third is raised to the retry wrapper, so the adapter call does not end
\* there: the provider is asked again.
C12_TransportRetried ==
    FetchEnded =>
      \A i \in 1..Len(rt.ctx.asked) :
         Transport(rt.ctx.adapter, rt.ctx.asked[i]) /\ i < 3 =>
            /\ rt.hist[i].kind = "retryable"
            /\ Len(rt.ctx.asked) > i

\* an outcome of the provider that is expected: nothing for the date, an
\* error payload, a rate-limit notice, no time series
ExpectedEmpty(adapter, date, o) ==
    \/ adapter = "yahoo" /\ o.kind = "empty"
    \/ adapter = "alphavantage" /\ o.kind \in {"error", "note"}
    \/ adapter = "alphavantage" /\ o.kind = "series"
         /\ \A d \in DOMAIN o.series : d > date

\* C14: an expected-empty outcome of the provider ends the adapter call on
\* that attempt with a returned observation whose close_price is null and
\* whose error is non-null; nothing is raised, nothing is slept for, and
\* when it comes on the first attempt the body has run exactly once.
C14_ExpectedEmptyReturned ==
    \A i \in 1..Len(rt.ctx.asked) :
       ExpectedEmpty(rt.ctx.adapter, rt.ctx.date, rt.ctx.asked[i]) =>
          /\ i = Len(rt.ctx.asked)
          /\ rt.phase = "returned"
          /\ rt.calls = i
          /\ Len(rt.sleeps) = i - 1
          /\ rt.hist[i].kind = "ok"
          /\ NotNone(rt.outcome)
          /\ IsNone(rt.outcome[1].close_price)
          /\ NotNone(rt.outcome[1].error)

\* a rate-limit notice on the first attempt
C14_Witness ==
    /\ rt.phase = "returned" /\ rt.calls = 1
    /\ rt.ctx.adapter = "alphavantage"
    /\ rt.ctx.asked = <<[kind |-> "note", series |-> <<>>]>>
    /\ rt.outcome = Some(Obs(rt.ctx.symbol, rt.ctx.date, None, None,
                             "alphavantage", Some("API rate limit")))

\* C15: when the series of the Secondary provider lacks the requested date,
\* the observation returned carries the greatest date of the series that
\* is not after the requested one, that date's close and a non-null
\* error; when the series has no such date its close_price is null and its
\* error non-null.
C15_ClosestEarlierDate ==
    (/\ rt.phase = "returned"
     /\ rt.ctx.adapter = "alphavantage"
     /\ rt.ctx.asked[Len(rt.ctx.asked)].kind = "series"
     /\ rt.ctx.date \notin DOMAIN rt.ctx.asked[Len(rt.ctx.asked)].series) =>
       LET ts == rt.ctx.asked[Len(rt.ctx.asked)].series
           res == rt.outcome[1]
           earlier == {d \in DOMAIN ts : d <= rt.ctx.date}
       IN IF earlier /= {}
          THEN /\ res.date \in earlier
               /\ \A d \in earlier : d <= res.date
               /\ res.close_price = Some(ts[res.date])
               /\ NotNone(res.error)
          ELSE /\ IsNone(res.close_price)
               /\ NotNone(res.error)

\* two earlier dates in the series: the later of them is returned
C15_Witness ==
    /\ rt.phase = "returned" /\ rt.ctx.adapter = "alphavantage"
    /\ rt.ctx.date = 2
    /\ rt.ctx.asked = <<[kind |-> "series", series |-> [d \in {0, 1} |->
                            IF d = 0 THEN 150 ELSE 999]]>>
    /\ rt.outcome[1].date = 1
    /\ rt.outcome[1].close_price = Some(999)
    /\ rt.outcome[1].error = Some("Exact date not available")

\* the Primary adapter's fetch ended by raising
PrimaryRaised ==
    last.op = "pair" /\ last.fetchRaised /\ last.yahoo_result = NoObs

\* C13: when the Primary adapter's fetch ends by raising, the Secondary
\* adapter is called all the same.
C13_SecondaryAfterRaise ==
    PrimaryRaised => last.calls = <<"yahoo", "alphavantage">>

\* the pairs of a sweep, symbol by symbol and day by day within a symbol
ExpectedPairs(symbols, start, end) ==
    LET nd == IF start <= end THEN end - start + 1 ELSE 0
    IN [i \in 1..(Len(symbols) * nd) |->
          <<symbols[((i - 1) \div nd) + 1], start + ((i - 1) % nd)>>]

\* the sweep has run past its last pair
SweepOver == pc = "sweep" /\ run.si > Len(run.symbols)

\* C16: the pairs ingest has attempted are, in order, the first pairs of
\* symbols x [start, end] taken symbol by symbol and day by day, each once,
\* whatever failed; when the sweep is over they are all of them.
C16_SweepOrder ==
    pc = "sweep" =>
      LET exp == ExpectedPairs(run.symbols, run.start, run.end)
      IN /\ Len(run.attempted) <= Len(exp)
         /\ \A i \in 1..Len(run.attempted) : run.attempted[i] = exp[i]
         /\ SweepOver => run.attempted = exp

\* two symbols over two days, with a failed pair on the way
C16_Witness ==
    /\ SweepOver
    /\ run.attempted = <<<<"MSFT", 1>>, <<"MSFT", 2>>, <<"AAPL", 1>>, <<"AAPL", 2>>>>
    /\ run.failed_pairs = <<<<"MSFT", 1>>>>

\* a step of the loop body of ingest
IsPairStep == pc = "sweep" /\ run.si <= Len(run.symbols) /\ now' /= now

\* the step in which ingest commits and ends
IsFinishStep == pc = "sweep" /\ pc' = "idle"

\* C17: an exception raised while a pair is processed (by the fetch or by
\* either upsert) adds one to failures and the pair to failed_pairs, and
\* the sweep goes on with the next pair; when the commit then succeeds,
\* ingest returns the summary with those failures.
C17_PairExceptionCounted ==
    [][/\ (IsPairStep /\ last'.raised) =>
            /\ run'.failures = run.failures + 1
            /\ run'.successes = run.successes
            /\ run'.failed_pairs =
                  Append(run.failed_pairs, <<run.symbols[run.si], run.cur>>)
            /\ pc' = "sweep"
            /\ run'.attempted =
                  Append(run.attempted, <<run.symbols[run.si], run.cur>>)
            /\ \/ run'.si > Len(run.symbols)
               \/ <<run'.symbols[run'.si], run'.cur>> =
                     ExpectedPairs(run.symbols, run.start, run.end)
                        [Len(run.attempted) + 2]
       /\ (IsFinishStep /\ ret'.commit = "ok") =>
            /\ ret'.status = "returned"
            /\ ret'.summary.failures = run.failures
            /\ ret'.summary.failed_pairs = run.failed_pairs]_vars

\* every pair of a two-pair sweep raised, the last one in the fetch, and
\* ingest returned
C17_Witness ==
    /\ ret.status = "returned"
    /\ ret.summary.total_dates = 2 /\ ret.summary.failures = 2
    /\ last.op = "pair" /\ last.raised /\ last.fetchRaised

\* the close_price stored for the key (symbol, date) is non-null
StoredPrice(tbl, symbol, date) ==
    /\ HasRow(tbl, symbol, date)
    /\ NotNone(RowOf(tbl, symbol, date).close_price)

\* C18: ingest counts a pair as a success exactly when the close_price
\* stored for the key after the pair's upsert is non-null, and as a
\* failure otherwise.
C18_SuccessByStoredPrice ==
    [][IsPairStep =>
         LET stored == StoredPrice(daily', run.symbols[run.si], run.cur)
         IN /\ stored <=> run'.successes = run.successes + 1
            /\ ~stored <=> run'.failures = run.failures + 1]_vars

\* C19: the summary ingest returns has total_symbols = number of symbols,
\* total_dates = symbols x dates attempted, successes + failures =
\* total_dates, as many failed_pairs as failures, and success_rate =
\* successes / total_dates * 100, or 0 when total_dates = 0.
C19_SummaryCounts ==
    [][(IsFinishStep /\ ret'.status = "returned") =>
         LET sm == ret'.summary
             n == PairCount(run.symbols, run.start, run.end)
         IN /\ sm.total_symbols = Len(run.symbols)
            /\ sm.total_dates = n
            /\ sm.successes + sm.failures = sm.total_dates
            /\ Len(sm.failed_pairs) = sm.failures
            /\ sm.success_rate = IF n = 0 THEN <<0, 1>>
                                 ELSE <<sm.successes * 100, n>>]_vars

\* two symbols over two days, three successes and one failure: 75 %
C19_Witness ==
    /\ ret.status = "returned"
    /\ ret.summary.total_symbols = 2 /\ ret.summary.total_dates = 4
    /\ ret.summary.successes = 3 /\ ret.summary.failures = 1
    /\ ret.summary.success_rate = <<300, 4>>

\* C20: after a failed commit ingest has raised, returned no summary, and
\* nothing the run wrote is in the tables (the database was empty before).
C20_NothingDurable ==
    ret.commit = "failed" =>
      /\ ret.status = "raised"
      /\ ret.summary = Summary(NoRun)
      /\ daily = {}
      /\ meta = {}

\* C30: an exception outside allowed_exceptions ends the wrapper's call on
\* the attempt that raised it: it is the last invocation, the exception is
\* what the call raises, and the only sleeps are those after the allowed
\* failures before it.
C30_FatalPropagates ==
    \A i \in 1..Len(rt.hist) :
       rt.hist[i].kind = "fatal" =>
          /\ i = Len(rt.hist)
          /\ rt.calls = i
          /\ rt.phase = "raised"
          /\ rt.outcome = Some(<<"fatal", i>>)
          /\ Len(rt.sleeps) = i - 1
          /\ \A n \in 1..(i - 1) : rt.hist[n].kind = "retryable"

\* an allowed failure, one sleep, then an exception that is not allowed, on
\* the second of three attempts
C30_Witness ==
    /\ rt.phase = "raised" /\ rt.max_attempts = 3 /\ rt.calls = 2
    /\ rt.hist[1].kind = "retryable" /\ rt.hist[2].kind = "fatal"
    /\ Len(rt.sleeps) = 1
    /\ rt.outcome = Some(<<"fatal", 2>>)

\* the metadata record of a symbol
MetaOf(tbl, symbol) == CHOOSE r \in SelectMeta(tbl, symbol) : TRUE

\* what a field holds after an argument arrived for it
LastWrite(stored, arg) == IF arg = None THEN stored ELSE arg

\* C22: upsert_stock_metadata on a stored symbol replaces every field whose
\* argument is non-null, whatever the field held, leaves every field whose
\* argument is null, and sets last_updated; on an absent symbol it inserts
\* one record with the arguments as given; no other record changes.
C22_MetadataLastWriteWins ==
    [][last'.op = "meta" =>
         LET symbol == last'.symbol
             after == MetaOf(meta', symbol)
         IN /\ Cardinality(SelectMeta(meta', symbol)) = 1
            /\ \A r \in meta : r.symbol /= symbol => r \in meta'
            /\ Cardinality(meta') = Cardinality(meta)
                  + (IF SelectMeta(meta, symbol) = {} THEN 1 ELSE 0)
            /\ after.last_updated = now'
            /\ IF SelectMeta(meta, symbol) = {}
               THEN /\ after.name = last'.name
                    /\ after.exchange = last'.exchange
                    /\ after.latest_market_cap = last'.market_cap
               ELSE LET before == MetaOf(meta, symbol)
                    IN /\ after.name = LastWrite(before.name, last'.name)
                       /\ after.exchange =
                             LastWrite(before.exchange, last'.exchange)
                       /\ after.latest_market_cap =
                             LastWrite(before.latest_market_cap, last'.market_cap)
                       /\ after.last_updated > before.last_updated]_vars

\* a second call replaced the stored market cap and left the stored name:
\* the record holds a name that the last call did not supply and the market
\* cap that it did
C22_Witness ==
    /\ last.op = "meta" /\ last.symbol = "AAPL"
    /\ last.name = None /\ last.market_cap = Some(2100000000)
    /\ \E r \in meta : /\ r.symbol = "AAPL"
                       /\ r.name = Some("Apple")
                       /\ r.latest_market_cap = Some(2100000000)
                       /\ r.last_updated > 1

\* the last step processed a pair whose fetch returned an observation
PairTraced == last.op = "pair" /\ ~last.fetchRaised

\* upsert_daily_data raised for that pair
DailyRaised == PairTraced /\ last.raised /\ ~last.metaCalled

Recorded == Upserted /\ Len(last'.stmts) = 2

\* C24 as stated, every attempt taken as recorded: after an upsert for a
\* key the error of its record is the message of that attempt.
C24_AsStated ==
    [][Upserted =>
         /\ HasRow(daily', last'.symbol, last'.date)
         /\ RowOf(daily', last'.symbol, last'.date).error = last'.error]_vars

\* C24: the error of a record is the message (or null) of the last attempt
\* that inserted or updated the record; an attempt that adopts nothing
\* leaves the record's error as it was, whatever message it carried.
C24_ErrorOfLastWrite ==
    [][Upserted =>
         /\ HasRow(daily', last'.symbol, last'.date)
         /\ \A r \in daily :
               (r.symbol /= last'.symbol \/ r.date /= last'.date) => r \in daily'
         /\ IF Recorded
            THEN RowOf(daily', last'.symbol, last'.date).error = last'.error
            ELSE /\ HasRow(daily, last'.symbol, last'.date)
                 /\ RowOf(daily', last'.symbol, last'.date).error =
                       RowOf(daily, last'.symbol, last'.date).error]_vars

\* a failed attempt on a record that holds a price: its message is not in
\* the record
C24_Witness ==
    /\ last.op \in {"upsert", "pair"} /\ ~last.raised
    /\ last.stmts = <<"SELECT">>
    /\ IsNone(last.close_price) /\ NotNone(last.error)
    /\ HasRow(daily, last.symbol, last.date)
    /\ NotNone(RowOf(daily, last.symbol, last.date).close_price)
    /\ IsNone(RowOf(daily, last.symbol, last.date).error)

\* C25: a pair processed without an exception has a record afterwards; when
\* the key had none, the record holds the observation as fetched (null
\* close_price and market_cap included, with the error message); records
\* are never removed, so every attempted pair of a run without exceptions
\* has a record.
C25_RecordOnFirstAttempt ==
    [][/\ \A r \in daily : HasRow(daily', r.symbol, r.date)
       /\ (IsPairStep /\ ~last'.raised) =>
            LET symbol == run.symbols[run.si]
                date == run.cur
            IN /\ Cardinality(SelectDaily(daily', symbol, date)) = 1
               /\ ~HasRow(daily, symbol, date) =>
                     LET row == RowOf(daily', symbol, date)
                     IN /\ row.close_price = last'.close_price
                        /\ row.market_cap = last'.market_cap
                        /\ row.source = last'.source
                        /\ row.error = last'.error
                        /\ row.created_at = now']_vars

\* a sweep of two pairs without an exception, the second a failure of both
\* providers: both have a record, the second's with null values and the
\* error
C25_Witness ==
    /\ SweepOver /\ Len(run.attempted) = 2
    /\ run.failed_pairs = <<run.attempted[2]>>
    /\ \A i \in 1..2 : HasRow(daily, run.attempted[i][1], run.attempted[i][2])
    /\ LET row == RowOf(daily, run.attempted[2][1], run.attempted[2][2])
       IN /\ IsNone(row.close_price) /\ IsNone(row.market_cap)
          /\ NotNone(row.error)
          /\ row.created_at = row.updated_at

\* C28: a pair's observation is stored under the date of the sweep: only
\* the record of (symbol, current date) appears or changes in the step; when
\* the fetched observation carries another date (the Secondary adapter's
\* earlier date) with a close, that close is the one stored under the
\* current date unless a close was there already, and the pair is counted
\* as a success.
C28_StoredUnderSweepDate ==
    [][(IsPairStep /\ last'.stmts /= <<>>) =>
         LET symbol == run.symbols[run.si]
             current_date == run.cur
             result == last'.result
         IN /\ \A r \in daily' \ daily :
                  r.symbol = symbol /\ r.date = current_date
            /\ (result.date /= current_date /\ NotNone(result.close_price)) =>
                  /\ StoredPrice(daily', symbol, current_date)
                  /\ ~StoredPrice(daily, symbol, current_date) =>
                        RowOf(daily', symbol, current_date).close_price =
                           result.close_price
                  /\ run'.successes = run.successes + 1
                  /\ run'.failed_pairs = run.failed_pairs]_vars

\* the Secondary adapter answered with the day before: its close is the
\* record of the requested day, and the day before has no record
C28_Witness ==
    /\ last.op = "pair" /\ ~last.raised
    /\ last.stmts = <<"SELECT", "INSERT">>
    /\ last.result.source = "alphavantage"
    /\ last.result.date = last.date - 1
    /\ last.result.error = Some("Exact date not available")
    /\ RowOf(daily, last.symbol, last.date).close_price = last.result.close_price
    /\ ~HasRow(daily, last.symbol, last.result.date)
    /\ pc = "sweep" /\ run.successes = 1

\* a record as it was inserted: every value it holds came with its source
AsInserted(row) == row.created_at = row.updated_at

\* C23: the source of a record names the provider of each non-null value
\* stored in it.  On the first upsert after the insert: the source still
\* names the provider of the values the record held, and names the provider
\* of each value adopted in that upsert.
C23_SourceNamesSupplier ==
    [][(Upserted /\ HasRow(daily, last'.symbol, last'.date)) =>
         LET old == RowOf(daily, last'.symbol, last'.date)
             new == RowOf(daily', last'.symbol, last'.date)
         IN AsInserted(old) =>
              /\ (NotNone(old.close_price) \/ NotNone(old.market_cap)) =>
                    new.source = old.source
              /\ (Adopts(old.close_price, last'.close_price)
                    \/ Adopts(old.market_cap, last'.market_cap)) =>
                    new.source = last'.source]_vars

\* C26: a call of upsert_daily_data overwrites a stored non-null value, or
\* attempts a second INSERT for a key, only when another call wrote the
\* same key between its lookup and its write; calls that do not interleave
\* on a key keep the guarantee.
C26_BrokenOnlyWhenInterleaved ==
    \A c \in Callers :
       (frames[c].at = "done" /\ (frames[c].lost \/ frames[c].raised)) =>
          frames[c].crossed

\* both callers found the record of the failed attempt without a close;
\* the first stored its close, the second then replaced it with its own
C26_Witness ==
    \E c \in Callers :
       /\ frames[c].at = "done" /\ frames[c].crossed /\ frames[c].lost
       /\ frames[c].stmts = <<"SELECT", "UPDATE">>
       /\ \A d \in Callers : frames[d].at = "done" /\ NotNone(frames[d].close_price)
       /\ \E r \in daily : /\ r.symbol = frames[c].symbol /\ r.date = frames[c].date
                           /\ r.close_price = frames[c].close_price
       /\ \E d \in Callers : frames[d].close_price /= frames[c].close_price

\* the calls of the log made for the same pair
SamePair(e, g) == e.symbol = g.symbol /\ e.date = g.date

\* the fetches logged so far
FetchEvents == {i \in 1..Len(events) : events[i].call = "fetch"}

\* C27: in the log of an ingest, upsert_daily_data comes right after the
\* fetch of its pair, which returned; upsert_stock_metadata comes right
\* after upsert_daily_data of its pair, which returned without an
\* exception; a fetch comes first or right after the last call of another
\* pair (a write that ended, or a call that raised), once that pair has
\* been counted; and the fetches follow the order of the sweep.
C27_PairByPair ==
    /\ \A i \in 1..Len(events) :
          LET e == events[i] IN
          /\ e.call = "daily" =>
                /\ i > 1 /\ events[i - 1].call = "fetch"
                /\ SamePair(events[i - 1], e) /\ ~events[i - 1].raised
          /\ e.call = "meta" =>
                /\ i > 1 /\ events[i - 1].call = "daily"
                /\ SamePair(events[i - 1], e) /\ ~events[i - 1].raised
          /\ (e.call = "fetch" /\ i > 1) =>
                /\ ~SamePair(events[i - 1], e)
                /\ events[i - 1].call /= "fetch" \/ events[i - 1].raised
    /\ pc \in {"fetch", "daily", "meta", "count", "except"} =>
          /\ Cardinality(FetchEvents) =
                Len(run.attempted) + (IF pc = "fetch" THEN 0 ELSE 1)
          /\ \A i \in FetchEvents :
                LET k == Cardinality({j \in FetchEvents : j <= i})
                IN <<events[i].symbol, events[i].date>> =
                      ExpectedPairs(run.symbols, run.start, run.end)[k]

\* a pair with its three calls, then a pair whose daily upsert raised, then
\* the fetch of a third pair
C27_Witness ==
    /\ Len(events) = 6
    /\ events[1].call = "fetch" /\ events[2].call = "daily"
    /\ events[3].call = "meta" /\ ~events[3].raised
    /\ events[4].call = "fetch" /\ events[5].call = "daily" /\ events[5].raised
    /\ events[6].call = "fetch"
    /\ Len(run.attempted) = 2 /\ run.failed_pairs = <<run.attempted[2]>>

\* C29: once ingest has ended after a successful connect, by a return or by
\* an exception, the connection is closed.
C29_ConnectionClosed ==
    (pc = "idle" /\ ret.status /= "none" /\ conn /= "none") => conn = "closed"

TypeOK ==
    /\ now \in Nat
    /\ pc \in {"idle", "sweep"}
    /\ \A r \in daily : r.symbol \in Symbols /\ r.date \in Dates

====
